---- MODULE Spec2Model ----
(***************************************************************************)
(* Model of servum's configuration resolution (src/config.rs):             *)
(*   - Overridable / Inheritable / Mergeable primitives,                   *)
(*   - resolve_task (parent lookup and the shell/path/env folds),          *)
(*   - TryFrom<Config> (validation loop, seed pass, iterative passes).     *)
(*                                                                         *)
(* Encoding of Rust values:                                                *)
(*   Option<T>        sequence of length 0 (None) or 1 (Some)              *)
(*   Overridable<T>   [tag, use, custom]; custom is an Option<T>           *)
(*   Inheritable<T>   [replace, config]                                    *)
(*   MultiStr         [kind, es]; Single(s) has es = <<s>>                 *)
(*   Option<MultiStr> as MultiStr with the extra kind "None"               *)
(*   Path             [dirs, apply]                                        *)
(*   Env              [vars, merge]; vars is a function on its key set     *)
(*   HashMap<K, V>    a function on its key set                            *)
(***************************************************************************)
EXTENDS Integers, Sequences, FiniteSets, TLC

VARIABLES
    doc,        \* the Config.tasks mapping handed to try_from (never changes)
    pc,         \* position inside try_from
    checked,    \* tasks the validation loop has already visited
    tasks,      \* keys still held by `tasks` (resp. by its consuming iterator)
    next,       \* keys of the `next` map of the running pass
    start_len,  \* `start_len` of the running pass
    passes,     \* how many times the body of the `while` loop was entered
    resolved,   \* the `resolved` map
    err,        \* the error try_from bailed with (Option)
    result,     \* the map returned inside Ok (Option)
    fn,         \* the entry point that was called
    args,       \* its arguments
    out         \* its return value (Option)

vars == <<doc, pc, checked, tasks, next, start_len, passes, resolved, err, result, fn, args, out>>

(***************************************************************************)
(* Bounds                                                                  *)
(***************************************************************************)
\* longest `extends` list in a document
MaxExtends == 2
\* longest `dirs` list written in a document
MaxDirs == 1
\* longest `dirs` list handed to the primitives in SpecPure
MaxPureDirs == 2

Ids == {"a", "b", "c"}
Dirs == {"/bin", "/usr/bin"}
Applies == {"Before", "After", "Overwrite"}
Keys == {"FOO_ENV", "BAR_ENV"}
Vals == {"v1", "v2"}

None == <<>>
Some(x) == <<x>>

SeqsUpTo(S, n) == UNION {[1..k -> S] : k \in 0..n}
SeqsFromTo(S, m, n) == UNION {[1..k -> S] : k \in m..n}
PartialFns(K, V) == UNION {[D -> V] : D \in SUBSET K}

EmptyMap == [x \in {} |-> x]

(***************************************************************************)
(* Constructors of the parsed types                                        *)
(***************************************************************************)
Unset == [tag |-> "Unset", use |-> FALSE, custom |-> None]
Use(b) == [tag |-> "Use", use |-> b, custom |-> None]
Custom(v) == [tag |-> "Custom", use |-> FALSE, custom |-> Some(v)]

NoExtends == [kind |-> "None", es |-> <<>>]
Single(s) == [kind |-> "Single", es |-> <<s>>]
Multi(ss) == [kind |-> "Multi", es |-> ss]

\* Task::default() with the given TaskConfig
Task_default(cfg) ==
    [config |-> cfg, extends |-> NoExtends, shell |-> Unset, path |-> Unset, env |-> Unset]

(***************************************************************************)
(* Primitives                                                              *)
(***************************************************************************)

\* IsEmpty for Option<MultiStr>
IsEmpty(extends) ==
    \/ extends.kind = "None"
    \/ extends.kind = "Multi" /\ Len(extends.es) = 0

\* From<MultiStr> for Vec<Rstr>; Rc::new keeps the string value
Rc_new(s) == s
MultiStr_into(m) ==
    IF m.kind = "Single" THEN <<Rc_new(m.es[1])>>
    ELSE [i \in 1..Len(m.es) |-> Rc_new(m.es[i])]

\* From<Path<String>> for Path<Rstr>
Path_into(p) == [dirs |-> [i \in 1..Len(p.dirs) |-> Rc_new(p.dirs[i])], apply |-> p.apply]

\* From<Env<String>> for Env<Rstr>
Env_into(e) == [vars |-> [k \in DOMAIN e.vars |-> Rc_new(e.vars[k])], merge |-> e.merge]

\* Vec::dedup: drops every element equal to its predecessor
RECURSIVE dedup(_)
dedup(s) ==
    IF Len(s) <= 1 THEN s
    ELSE IF s[1] = s[2] THEN dedup(Tail(s))
    ELSE <<s[1]>> \o dedup(Tail(s))

\* a plausible slip: operands appended the other way round
Path_merge_swapped(self, other) ==
    [dirs |-> dedup(self.dirs \o other.dirs), apply |-> other.apply]

\* Mergeable for Path<Rstr>: other.dirs.append(&mut self.dirs); other.dirs.dedup()
Path_merge(self, other) ==
    [dirs |-> dedup(other.dirs \o self.dirs), apply |-> other.apply]

\* a plausible slip: existing keys are kept instead of overwritten
Env_merge_keep(self, other) ==
    [vars |-> [k \in DOMAIN self.vars \cup DOMAIN other.vars |->
                 IF k \in DOMAIN self.vars THEN self.vars[k] ELSE other.vars[k]],
     merge |-> other.merge]

\* Mergeable for Env<Rstr>: self.vars.extend(other.vars)
Env_merge(self, other) ==
    [vars |-> [k \in DOMAIN self.vars \cup DOMAIN other.vars |->
                 IF k \in DOMAIN other.vars THEN other.vars[k] ELSE self.vars[k]],
     merge |-> other.merge]

\* trait dispatch of Mergeable::merge
merge(kind, self, other) ==
    IF kind = "path" THEN Path_merge(self, other) ELSE Env_merge(self, other)

\* a plausible slip: Use(false) treated like Use(true)
Overridable_resolve_anyuse(self, parent) ==
    IF self.tag \in {"Use", "Unset"} /\ parent # None THEN parent
    ELSE IF self.tag = "Custom" THEN self.custom
    ELSE None

\* Overridable::resolve
Overridable_resolve(self, parent) ==
    IF ((self.tag = "Use" /\ self.use) \/ self.tag = "Unset") /\ parent # None THEN parent
    ELSE IF self.tag = "Custom" THEN self.custom
    ELSE None

\* a plausible slip: the replace flag is ignored
Inheritable_resolve_noreplace(kind, self, parent) ==
    IF parent # None THEN merge(kind, parent[1], self.config)
    ELSE self.config

\* Inheritable::resolve
Inheritable_resolve(kind, self, parent) ==
    IF ~self.replace /\ parent # None THEN merge(kind, parent[1], self.config)
    ELSE self.config

\* Inheritable::map with the Into conversion of the leaf type
Inheritable_map(kind, inh) ==
    [replace |-> inh.replace,
     config |-> IF kind = "path" THEN Path_into(inh.config) ELSE Env_into(inh.config)]

\* Overridable::map_custom with the closure |p| p.map(Into::into).resolve(parent)
map_custom(kind, ov, parent) ==
    IF ov.tag = "Custom"
    THEN Custom(Inheritable_resolve(kind, Inheritable_map(kind, ov.custom[1]), parent))
    ELSE ov

\* Overridable::map_custom with Into::into (shell)
map_custom_shell(ov) ==
    IF ov.tag = "Custom" THEN Custom(MultiStr_into(ov.custom[1])) ELSE ov

(***************************************************************************)
(* resolve_task                                                            *)
(***************************************************************************)

\* a plausible slip: parents gathered in a set, losing declaration order
ParentIds_unordered(extends) ==
    IF extends.kind = "None" THEN <<>>
    ELSE LET S == {extends.es[i] : i \in 1..Len(extends.es)} IN
         CHOOSE s \in [1..Cardinality(S) -> S] : {s[i] : i \in 1..Cardinality(S)} = S

\* ids pushed to `parents`, in order (match &task.extends)
ParentIds(extends) ==
    IF extends.kind = "None" THEN <<>> ELSE extends.es

\* a plausible slip: a running shell is never overwritten by a later parent
fold_shell_first(shell, p_shell) ==
    IF shell # None THEN shell
    ELSE IF p_shell # None THEN p_shell
    ELSE None

\* shell arm of the fold closure
fold_shell(shell, p_shell) ==
    IF shell # None /\ p_shell = None THEN shell
    ELSE IF p_shell # None THEN p_shell
    ELSE None

\* a plausible slip: an accumulator that is already set is never merged into
fold_merge_first(kind, acc, p_val) ==
    IF acc # None THEN acc
    ELSE IF p_val # None THEN p_val
    ELSE None

\* a plausible slip: accumulator and parent swapped in the merge call
fold_merge_swapped(kind, acc, p_val) ==
    IF acc # None /\ p_val # None THEN Some(merge(kind, p_val[1], acc[1]))
    ELSE IF acc # None THEN acc
    ELSE IF p_val # None THEN p_val
    ELSE None

\* path and env arms of the fold closure
fold_merge(kind, acc, p_val) ==
    IF acc # None /\ p_val # None THEN Some(merge(kind, acc[1], p_val[1]))
    ELSE IF acc # None THEN acc
    ELSE IF p_val # None THEN p_val
    ELSE None

\* parents.into_iter().fold((None, None, None), ...)
RECURSIVE fold(_, _)
fold(parents, acc) ==
    IF Len(parents) = 0 THEN acc
    ELSE LET p == Head(parents) IN
         fold(Tail(parents),
              [shell |-> fold_shell(acc.shell, p.shell),
               path  |-> fold_merge("path", acc.path, p.path),
               env   |-> fold_merge("env", acc.env, p.env)])

\* the ResolvedTask literal built by resolve_task and by From<Task>
ResolvedTask(task, inherited) ==
    [config |-> task.config,
     shell  |-> Overridable_resolve(map_custom_shell(task.shell), inherited.shell),
     path   |-> Overridable_resolve(map_custom("path", task.path, inherited.path), inherited.path),
     env    |-> Overridable_resolve(map_custom("env", task.env, inherited.env), inherited.env)]

NoParent == [shell |-> None, path |-> None, env |-> None]

\* From<Task> for ResolvedTask
From_Task(task) == ResolvedTask(task, NoParent)

\* a plausible slip: parents not yet resolved are skipped instead of deferring
resolve_task_skip(task, res) ==
    LET es == ParentIds(task.extends)
        have == SelectSeq(es, LAMBDA e : e \in DOMAIN res)
    IN  Some(ResolvedTask(task, fold([i \in 1..Len(have) |-> res[have[i]]], NoParent)))

\* resolve_task: None is Err(task), Some(r) is Ok(r)
resolve_task(task, res) ==
    LET es == ParentIds(task.extends) IN
    IF \E i \in 1..Len(es) : es[i] \notin DOMAIN res THEN None
    ELSE Some(ResolvedTask(task, fold([i \in 1..Len(es) |-> res[es[i]]], NoParent)))

(***************************************************************************)
(* TryFrom<Config>::try_from                                               *)
(***************************************************************************)

\* a plausible slip: only the Single form of `extends` is validated
FirstUnknown_single(extends, keys) ==
    IF extends.kind = "Single" /\ extends.es[1] \notin keys THEN Some(extends.es[1])
    ELSE None

\* the id the validation loop bails on for one task, if any
FirstUnknown(extends, keys) ==
    LET es == ParentIds(extends)
        bad == {i \in 1..Len(es) : es[i] \notin keys}
    IN  IF bad = {} THEN None
        ELSE Some(es[CHOOSE i \in bad : \A j \in bad : i <= j])

UnknownTask(e) == [kind |-> "Unknown task", id |-> e]
CycleDetected == [kind |-> "Extends dependency cycle detected", id |-> ""]

\* one iteration of `for task in tasks.values()`
Validate(id) ==
    /\ pc = "validate"
    /\ id \in DOMAIN doc \ checked
    /\ LET miss == FirstUnknown(doc[id].extends, DOMAIN doc) IN
       IF miss # None
       THEN /\ pc' = "failed"
            /\ err' = Some(UnknownTask(miss[1]))
            /\ UNCHANGED checked
       ELSE /\ checked' = checked \cup {id}
            /\ UNCHANGED <<pc, err>>
    /\ UNCHANGED <<doc, tasks, next, start_len, resolved, result, fn, args, out, passes>>

\* the validation loop has run to completion
Validated == pc = "validate" /\ checked = DOMAIN doc

\* one element of tasks.extract_if(|_k, v| v.extends.is_empty()).map(..).collect()
Seed(id) ==
    /\ Validated \/ pc = "seed"
    /\ id \in tasks
    /\ IsEmpty(doc[id].extends)
    /\ pc' = "seed"
    /\ tasks' = tasks \ {id}
    /\ resolved' = (id :> From_Task(doc[id])) @@ resolved
    /\ UNCHANGED <<doc, checked, next, start_len, err, result, fn, args, out, passes>>

\* extract_if has drained every task without parents
Seeded ==
    /\ Validated \/ pc = "seed"
    /\ \A id \in tasks : ~IsEmpty(doc[id].extends)

\* `while !tasks.is_empty()` entered: start_len and next are set up
PassStart ==
    /\ Seeded \/ pc = "loop"
    /\ tasks # {}
    /\ pc' = "scan"
    /\ start_len' = Cardinality(tasks)
    /\ next' = {}
    /\ passes' = passes + 1
    /\ UNCHANGED <<doc, checked, tasks, resolved, err, result, fn, args, out>>

\* `while` condition false: Ok((watch, resolved))
ReturnOk ==
    /\ Seeded \/ pc = "loop"
    /\ tasks = {}
    /\ pc' = "ok"
    /\ result' = Some(resolved)
    /\ UNCHANGED <<doc, checked, tasks, next, start_len, resolved, err, fn, args, out, passes>>

\* a plausible slip: a task that cannot be resolved yet is not kept in `next`
Scan_drop(id) ==
    /\ pc = "scan"
    /\ id \in tasks
    /\ tasks' = tasks \ {id}
    /\ LET r == resolve_task(doc[id], resolved) IN
       IF r # None
       THEN resolved' = (id :> r[1]) @@ resolved
       ELSE UNCHANGED resolved
    /\ UNCHANGED <<doc, pc, checked, next, start_len, err, result, fn, args, out, passes>>

\* one iteration of `for (id, task) in tasks`
Scan(id) ==
    /\ pc = "scan"
    /\ id \in tasks
    /\ tasks' = tasks \ {id}
    /\ LET r == resolve_task(doc[id], resolved) IN
       IF r # None
       THEN /\ resolved' = (id :> r[1]) @@ resolved
            /\ UNCHANGED next
       ELSE /\ next' = next \cup {id}
            /\ UNCHANGED resolved
    /\ UNCHANGED <<doc, pc, checked, start_len, err, result, fn, args, out, passes>>

\* a plausible slip: the pass bails as soon as any task had to be deferred
PassEnd_eager ==
    /\ pc = "scan"
    /\ tasks = {}
    /\ IF Cardinality(next) > 0
       THEN /\ pc' = "failed"
            /\ err' = Some(CycleDetected)
            /\ UNCHANGED <<tasks, next>>
       ELSE /\ pc' = "loop"
            /\ tasks' = next
            /\ next' = {}
            /\ UNCHANGED err
    /\ UNCHANGED <<doc, checked, start_len, resolved, result, fn, args, out, passes>>

\* end of the pass: the cycle check, then tasks = next
PassEnd ==
    /\ pc = "scan"
    /\ tasks = {}
    /\ IF Cardinality(next) = start_len
       THEN /\ pc' = "failed"
            /\ err' = Some(CycleDetected)
            /\ UNCHANGED <<tasks, next>>
       ELSE /\ pc' = "loop"
            /\ tasks' = next
            /\ next' = {}
            /\ UNCHANGED err
    /\ UNCHANGED <<doc, checked, start_len, resolved, result, fn, args, out, passes>>

(***************************************************************************)
(* Documents                                                               *)
(***************************************************************************)
Cfg(id) == [name |-> id]

PathOf(d, ap) == [dirs |-> d, apply |-> ap]
EnvOf(vs, m) == [vars |-> vs, merge |-> m]
Inh(r, c) == [replace |-> r, config |-> c]

\* lists of pairwise different ids
Distinct(S, n) == {s \in SeqsUpTo(S, n) : \A i, j \in 1..Len(s) : s[i] = s[j] => i = j}

ExtendsAll ==
    {NoExtends} \cup {Single(e) : e \in Ids} \cup {Multi(s) : s \in Distinct(Ids, MaxExtends)}

ChildExtends == {Multi(s) : s \in SeqsFromTo({"a", "b"}, 1, MaxExtends)}
MidExtends == {NoExtends, Single("a")}

ParentPaths(ap) ==
    {Unset} \cup {Custom(Inh(FALSE, PathOf(d, ap))) : d \in SeqsUpTo(Dirs, MaxDirs)}
ChildPaths(ap) ==
    {Unset, Use(TRUE), Use(FALSE)}
    \cup {Custom(Inh(r, PathOf(d, ap))) : r \in BOOLEAN, d \in SeqsUpTo(Dirs, 1)}

ParentEnvs(v, m) ==
    {Unset} \cup {Custom(Inh(FALSE, EnvOf(vs, m))) : vs \in PartialFns(Keys, {v})}
ChildEnvs(v, m) ==
    {Unset, Use(TRUE), Use(FALSE)}
    \cup {Custom(Inh(r, EnvOf(vs, m))) : r \in BOOLEAN, vs \in PartialFns(Keys, {v})}

Shells ==
    {Unset, Use(TRUE), Use(FALSE), Custom(Single("/bin/bash")), Custom(Multi(<<"/bin/sh", "-c">>))}

(***************************************************************************)
(* Specification of try_from                                               *)
(***************************************************************************)
\* entry of try_from with Config.tasks = d
Enter(d) ==
    /\ doc = d
    /\ pc = "validate"
    /\ checked = {}
    /\ tasks = DOMAIN d
    /\ next = {}
    /\ start_len = 0
    /\ passes = 0
    /\ resolved = EmptyMap
    /\ err = None
    /\ result = None
    /\ fn = "try_from"
    /\ args = <<>>
    /\ out = None

\* any task mapping over a subset of Ids, any extends lists without repeated
\* ids (dangling and cyclic ones included), default settings
InitGraph ==
    \E K \in SUBSET Ids : \E x \in [K -> ExtendsAll] :
        Enter([k \in K |-> [Task_default(Cfg(k)) EXCEPT !.extends = x[k]]])

\* a (seed), b (seed or child of a) and c, which extends any list of a and b
Family(ta, xb, tb, xc, tc) ==
    ("a" :> ta) @@ ("b" :> [tb EXCEPT !.extends = xb]) @@ ("c" :> [tc EXCEPT !.extends = xc])

\* a and b carry paths, c has any path override
InitPath ==
    \E pa \in ParentPaths("Before"), xb \in MidExtends, pb \in ParentPaths("After"),
       xc \in ChildExtends, pcc \in ChildPaths("Overwrite") :
        Enter(Family([Task_default(Cfg("a")) EXCEPT !.path = pa], xb,
                     [Task_default(Cfg("b")) EXCEPT !.path = pb], xc,
                     [Task_default(Cfg("c")) EXCEPT !.path = pcc]))

\* a and b carry env vars, c has any env override; each task writes its own
\* value so that the winner of a collision shows
InitEnv ==
    \E ea \in ParentEnvs("v1", TRUE), xb \in MidExtends, eb \in ParentEnvs("v2", FALSE),
       xc \in ChildExtends, ec \in ChildEnvs("overridden", TRUE) :
        Enter(Family([Task_default(Cfg("a")) EXCEPT !.env = ea], xb,
                     [Task_default(Cfg("b")) EXCEPT !.env = eb], xc,
                     [Task_default(Cfg("c")) EXCEPT !.env = ec]))

\* a and b carry shells, c has any shell override
InitShell ==
    \E sa \in Shells, xb \in MidExtends, sb \in Shells, xc \in ChildExtends, sc \in Shells :
        Enter(Family([Task_default(Cfg("a")) EXCEPT !.shell = sa], xb,
                     [Task_default(Cfg("b")) EXCEPT !.shell = sb], xc,
                     [Task_default(Cfg("c")) EXCEPT !.shell = sc]))

(***************************************************************************)
(* Direct calls of the public primitives                                   *)
(***************************************************************************)
\* entry of primitive f with arguments a
EnterCall(f, a) ==
    /\ doc = EmptyMap
    /\ pc = "call"
    /\ checked = {}
    /\ tasks = {}
    /\ next = {}
    /\ start_len = 0
    /\ passes = 0
    /\ resolved = EmptyMap
    /\ err = None
    /\ result = None
    /\ fn = f
    /\ args = a
    /\ out = None

PurePaths == {PathOf(d, ap) : d \in SeqsUpTo(Dirs, MaxPureDirs), ap \in Applies}
PureEnvs == {EnvOf(vs, m) : vs \in PartialFns(Keys, Vals), m \in BOOLEAN}
Leaves(kind) == IF kind = "path" THEN PurePaths ELSE PureEnvs
Opt(S) == {None} \cup {Some(x) : x \in S}

InitOverridable ==
    \E self \in {Unset, Use(TRUE), Use(FALSE)} \cup {Custom(v) : v \in Vals}, parent \in Opt(Vals) :
        EnterCall("Overridable::resolve", [self |-> self, parent |-> parent])

InitInheritable ==
    \E kind \in {"path", "env"} :
        \E r \in BOOLEAN, c \in Leaves(kind), parent \in Opt(Leaves(kind)) :
            EnterCall("Inheritable::resolve", [kind |-> kind, self |-> Inh(r, c), parent |-> parent])

InitMerge ==
    \E kind \in {"path", "env"} :
        \E self \in Leaves(kind), other \in Leaves(kind) :
            EnterCall("Mergeable::merge", [kind |-> kind, self |-> self, other |-> other])

Call_Overridable_resolve ==
    /\ pc = "call"
    /\ fn = "Overridable::resolve"
    /\ pc' = "returned"
    /\ out' = Some(Overridable_resolve(args.self, args.parent))
    /\ UNCHANGED <<doc, checked, tasks, next, start_len, resolved, err, result, fn, args, passes>>

Call_Inheritable_resolve ==
    /\ pc = "call"
    /\ fn = "Inheritable::resolve"
    /\ pc' = "returned"
    /\ out' = Some(Inheritable_resolve(args.kind, args.self, args.parent))
    /\ UNCHANGED <<doc, checked, tasks, next, start_len, resolved, err, result, fn, args, passes>>

Call_merge ==
    /\ pc = "call"
    /\ fn = "Mergeable::merge"
    /\ pc' = "returned"
    /\ out' = Some(merge(args.kind, args.self, args.other))
    /\ UNCHANGED <<doc, checked, tasks, next, start_len, resolved, err, result, fn, args, passes>>

Init ==
    \/ InitGraph \/ InitPath \/ InitEnv \/ InitShell
    \/ InitOverridable \/ InitInheritable \/ InitMerge

Next ==
    \/ \E id \in Ids : Validate(id)
    \/ \E id \in Ids : Seed(id)
    \/ PassStart
    \/ ReturnOk
    \/ \E id \in Ids : Scan(id)
    \/ PassEnd
    \/ Call_Overridable_resolve
    \/ Call_Inheritable_resolve
    \/ Call_merge

Spec == Init /\ [][Next]_vars

\* the steps of try_from alone
NextTryFrom ==
    \/ \E id \in Ids : Validate(id)
    \/ \E id \in Ids : Seed(id)
    \/ PassStart
    \/ ReturnOk
    \/ \E id \in Ids : Scan(id)
    \/ PassEnd

\* try_from on every extends graph; it is sequential code that runs to
\* completion, so a step that can be taken is taken
SpecFair == InitGraph /\ [][NextTryFrom]_vars /\ WF_vars(NextTryFrom)

InTryFrom == fn = "try_from"

(***************************************************************************)
(* Graph notions used by the properties                                    *)
(***************************************************************************)
\* the ids a task lists in `extends`, as written
Listed(d, id) == {d[id].extends.es[i] : i \in 1..Len(d[id].extends.es)}

\* some task lists an id that is no key of the mapping
HasUnknown(d) == \E id \in DOMAIN d : Listed(d, id) \ DOMAIN d # {}

Edges(d) == {e \in (DOMAIN d) \X (DOMAIN d) : e[2] \in Listed(d, e[1])}
Compose(R, S) == {p \in Ids \X Ids : \E y \in Ids : <<p[1], y>> \in R /\ <<y, p[2]>> \in S}
RECURSIVE Paths(_, _)
Paths(E, n) == IF n <= 1 THEN E ELSE LET P == Paths(E, n - 1) IN E \cup Compose(P, E)
\* x reaches y through one or more extends steps
Reaches(d) == LET E == Edges(d) IN Paths(E, Cardinality(Ids))
OnCycle(d) == LET R == Reaches(d) IN {id \in DOMAIN d : <<id, id>> \in R}
\* tasks on a cycle and tasks that extend, directly or not, a task on one
Stuck(d) ==
    LET R == Reaches(d)
        cyc == {id \in DOMAIN d : <<id, id>> \in R}
    IN  cyc \cup {id \in DOMAIN d : \E y \in cyc : <<id, y>> \in R}

(***************************************************************************)
(* C1                                                                      *)
(***************************************************************************)
\* C1: when some extends entry names an id that is no key of the task
\* mapping, try_from never leaves the validation loop except by bailing with
\* the unknown-task error naming such an id: nothing is ever resolved, no
\* task with a dangling entry passes validation, and no map is returned,
\* whatever the other tasks are.
C1_UnknownFailsFirst ==
    (InTryFrom /\ HasUnknown(doc)) =>
        /\ pc \in {"validate", "failed"}
        /\ DOMAIN resolved = {}
        /\ tasks = DOMAIN doc
        /\ result = None
        /\ \A id \in checked : Listed(doc, id) \subseteq DOMAIN doc
        /\ pc = "failed" =>
             /\ err # None
             /\ err[1].kind = "Unknown task"
             /\ err[1].id \notin DOMAIN doc
             /\ \E id \in DOMAIN doc : err[1].id \in Listed(doc, id)

\* the bail happens in a document that also has a seed and a task on a
\* cycle, after a valid task has already been visited, and the dangling entry
\* is not the first of its list
C1_Witness ==
    /\ InTryFrom /\ pc = "failed" /\ err # None /\ err[1].kind = "Unknown task"
    /\ checked # {}
    /\ \E id \in DOMAIN doc : IsEmpty(doc[id].extends)
    /\ OnCycle(doc) # {}
    /\ \E id \in DOMAIN doc : Len(doc[id].extends.es) = 2
                               /\ doc[id].extends.es[1] \in DOMAIN doc
                               /\ doc[id].extends.es[2] \notin DOMAIN doc

(***************************************************************************)
(* C2                                                                      *)
(***************************************************************************)
\* C2: when every extends id exists and some task lies on a cycle of the
\* extends relation, try_from never returns Ok and never produces a map, and
\* if it has bailed, it bailed with the dependency-cycle error; and in no
\* document is a task on a cycle, or a task extending one, ever resolved.
C2_CycleFails ==
    InTryFrom =>
        /\ \/ /\ pc # "ok"
              /\ result = None
              /\ pc = "failed" => err = Some(CycleDetected)
           \/ HasUnknown(doc)
           \/ OnCycle(doc) = {}
        /\ \/ DOMAIN resolved = {}
           \/ DOMAIN resolved \cap Stuck(doc) = {}

\* the cycle error is returned after one task was resolved in the seed pass
\* and another in an earlier iterative pass
C2_Witness ==
    /\ InTryFrom /\ pc = "failed" /\ err = Some(CycleDetected)
    /\ \E s \in DOMAIN resolved : IsEmpty(doc[s].extends)
    /\ \E t \in DOMAIN resolved : ~IsEmpty(doc[t].extends)
    /\ start_len = 1

(***************************************************************************)
(* C3                                                                      *)
(***************************************************************************)
\* C3: try_from ends either with an error and no map, or with a map that
\* has exactly one record for every task id of the document (carrying that
\* task's own config); and at every point each task id is in exactly one of
\* the pending set (tasks not yet scanned plus `next`) and the resolved set.
C3_AllOrNothing ==
    InTryFrom =>
        /\ pc = "ok" => /\ result = Some(resolved)
                        /\ DOMAIN resolved = DOMAIN doc
                        /\ err = None
        /\ result # None => pc = "ok"
        /\ pc = "failed" <=> err # None
        /\ tasks \cap next = {}
        /\ DOMAIN resolved \subseteq DOMAIN doc
        /\ \A id \in DOMAIN doc : (id \in tasks \cup next) # (id \in DOMAIN resolved)
        /\ \A id \in DOMAIN resolved : resolved[id].config = doc[id].config

\* a three-task document resolved successfully, one task of which had to
\* wait for a second iterative pass
C3_Witness ==
    /\ InTryFrom /\ pc = "ok" /\ result # None
    /\ DOMAIN result[1] = Ids
    /\ \E x, y, z \in Ids : /\ IsEmpty(doc[x].extends)
                            /\ doc[y].extends = Single(x)
                            /\ doc[z].extends = Single(y)

(***************************************************************************)
(* C4                                                                      *)
(***************************************************************************)
\* the table of section 4.1
OverrideTable(self, parent) ==
    CASE self.tag = "Unset" /\ parent # None -> parent
      [] self.tag = "Unset" /\ parent = None -> None
      [] self.tag = "Use" /\ self.use /\ parent # None -> parent
      [] self.tag = "Use" /\ self.use /\ parent = None -> None
      [] self.tag = "Use" /\ ~self.use -> None
      [] self.tag = "Custom" -> Some(self.custom[1])

\* C4: Overridable::resolve returns for every self and parent (the call is
\* always able to return) and the value it returns is the one of the table.
C4_OverrideTable ==
    fn = "Overridable::resolve" =>
        /\ pc = "call" => ENABLED Call_Overridable_resolve
        /\ pc = "returned" => out = Some(OverrideTable(args.self, args.parent))

\* Use(false) was resolved against a present parent and gave absent
C4_Witness ==
    /\ fn = "Overridable::resolve" /\ pc = "returned"
    /\ args.self = Use(FALSE) /\ args.parent # None
    /\ out = Some(None)

(***************************************************************************)
(* Helpers of the properties about values                                  *)
(***************************************************************************)
Last(s) == s[Len(s)]
Front(s) == SubSeq(s, 1, Len(s) - 1)
IsPrefix(s, t) == Len(s) <= Len(t) /\ SubSeq(t, 1, Len(s)) = s
Range(s) == {s[i] : i \in 1..Len(s)}

\* positions of c that start a run of equal entries, and c cut down to them
RunStarts(c) == {i \in 1..Len(c) : i = 1 \/ c[i] # c[i - 1]}
Collapsed(c) ==
    [j \in 1..Cardinality(RunStarts(c)) |->
        c[CHOOSE i \in RunStarts(c) : Cardinality({k \in RunStarts(c) : k <= i}) = j]]

\* tasks resolved by resolve_task from a non-empty parent list
Children == {id \in DOMAIN resolved : Len(doc[id].extends.es) > 0}
\* the resolved records of the parents of id, in declaration order
ParentsOf(id) == [i \in 1..Len(doc[id].extends.es) |-> resolved[doc[id].extends.es[i]]]
\* the values of the present options of a sequence of options, in order
Present(opts) ==
    LET some == SelectSeq(opts, LAMBDA o : o # None) IN [i \in 1..Len(some) |-> some[i][1]]
ParentPathsOf(id) == Present([i \in 1..Len(ParentsOf(id)) |-> ParentsOf(id)[i].path])

(***************************************************************************)
(* C5                                                                      *)
(***************************************************************************)
\* the result section 4.2 prescribes for an Inheritable against a parent
InheritableRule(kind, self, parent) ==
    IF self.replace = FALSE /\ parent # None
    THEN merge(kind, parent[1], self.config)
    ELSE self.config

\* C5: Inheritable::resolve returns merge(parent, own config) when
\* replace=false and the parent is present, and exactly the own config when
\* replace=true or the parent is absent; and a task resolved by try_from
\* whose path (env) is Custom gets exactly that value, computed against what
\* its parents fold to.
C5_InheritableRule ==
    /\ (fn = "Inheritable::resolve" /\ pc = "returned") =>
          /\ out = Some(InheritableRule(args.kind, args.self, args.parent))
          /\ (args.self.replace \/ args.parent = None) => out = Some(args.self.config)
    /\ InTryFrom =>
          \A id \in DOMAIN resolved :
             LET inh == fold(ParentsOf(id), NoParent) IN
             /\ doc[id].path.tag = "Custom" =>
                  resolved[id].path =
                     Some(InheritableRule("path", Inheritable_map("path", doc[id].path.custom[1]), inh.path))
             /\ doc[id].env.tag = "Custom" =>
                  resolved[id].env =
                     Some(InheritableRule("env", Inheritable_map("env", doc[id].env.custom[1]), inh.env))

\* replace=true was resolved against a present parent with dirs of its own,
\* and none of them was inherited
C5_Witness ==
    /\ fn = "Inheritable::resolve" /\ pc = "returned"
    /\ args.kind = "path" /\ args.self.replace /\ args.parent # None
    /\ args.parent[1].dirs # <<>>
    /\ Range(args.parent[1].dirs) \cap Range(args.self.config.dirs) = {}
    /\ out = Some(args.self.config)

(***************************************************************************)
(* C6                                                                      *)
(***************************************************************************)
\* C6: Path merge(base, incoming) returns incoming.dirs followed by
\* base.dirs with every run of adjacent equal entries cut down to its first
\* entry (entries that are equal but not adjacent all stay), and the apply
\* method of incoming; without adjacent equal entries that is exactly
\* incoming.dirs ++ base.dirs.
C6_PathMerge ==
    (fn = "Mergeable::merge" /\ args.kind = "path" /\ pc = "returned") =>
        LET base == args.self
            incoming == args.other
            cat == incoming.dirs \o base.dirs
        IN  /\ out # None
            /\ out[1].dirs = Collapsed(cat)
            /\ out[1].apply = incoming.apply
            /\ (\A i \in 2..Len(cat) : cat[i] # cat[i - 1]) => out[1].dirs = cat

\* a merge whose concatenation has both an adjacent pair, which collapsed,
\* and a non-adjacent duplicate, which stayed
C6_Witness ==
    /\ fn = "Mergeable::merge" /\ args.kind = "path" /\ pc = "returned"
    /\ args.other.dirs = <<"/bin", "/usr/bin">>
    /\ args.self.dirs = <<"/usr/bin", "/bin">>
    /\ args.self.apply # args.other.apply
    /\ out = Some(PathOf(<<"/bin", "/usr/bin", "/bin">>, args.other.apply))

(***************************************************************************)
(* C7                                                                      *)
(***************************************************************************)
\* C7: Env merge(base, incoming) returns vars whose keys are exactly those
\* of base and incoming, every key of incoming with incoming's value, every
\* other key with base's value, and the merge flag of incoming.
C7_EnvMerge ==
    (fn = "Mergeable::merge" /\ args.kind = "env" /\ pc = "returned") =>
        LET base == args.self
            incoming == args.other
        IN  /\ out # None
            /\ DOMAIN out[1].vars = DOMAIN base.vars \cup DOMAIN incoming.vars
            /\ \A k \in DOMAIN incoming.vars : out[1].vars[k] = incoming.vars[k]
            /\ \A k \in DOMAIN base.vars \ DOMAIN incoming.vars : out[1].vars[k] = base.vars[k]
            /\ out[1].merge = incoming.merge

\* a merge with a key on both sides with different values, a key only in
\* base, and different merge flags
C7_Witness ==
    /\ fn = "Mergeable::merge" /\ args.kind = "env" /\ pc = "returned"
    /\ DOMAIN args.self.vars = Keys
    /\ DOMAIN args.other.vars = {"BAR_ENV"}
    /\ args.self.vars["BAR_ENV"] # args.other.vars["BAR_ENV"]
    /\ args.self.merge # args.other.merge
    /\ out[1].vars["BAR_ENV"] = args.other.vars["BAR_ENV"]
    /\ out[1].vars["FOO_ENV"] = args.self.vars["FOO_ENV"]

(***************************************************************************)
(* C8                                                                      *)
(***************************************************************************)
\* left-to-right fold of merge over a sequence of leaf values: the
\* accumulator is the base, the next value the incoming operand
RECURSIVE MergeFold(_, _)
MergeFold(kind, vals) ==
    IF Len(vals) = 0 THEN None
    ELSE IF Len(vals) = 1 THEN Some(vals[1])
    ELSE Some(merge(kind, MergeFold(kind, Front(vals))[1], Last(vals)))

\* a task's own path Override resolved against an inherited value
OwnPath(ov, inherited) ==
    CASE ov.tag = "Unset" -> inherited
      [] ov.tag = "Use" /\ ov.use -> inherited
      [] ov.tag = "Use" /\ ~ov.use -> None
      [] ov.tag = "Custom" ->
            Some(InheritableRule("path", Inheritable_map("path", ov.custom[1]), inherited))

\* section 8, multi-parent scenario: the child's path is Unset, its parents
\* are p1 then p2, resolved to dirs ["/bin"] and ["/usr/bin"]
Scenario8(id) ==
    /\ doc[id].path = Unset
    /\ Len(doc[id].extends.es) = 2
    /\ resolved[doc[id].extends.es[1]].path # None
    /\ resolved[doc[id].extends.es[1]].path[1].dirs = <<"/bin">>
    /\ resolved[doc[id].extends.es[2]].path # None
    /\ resolved[doc[id].extends.es[2]].path[1].dirs = <<"/usr/bin">>

\* C8: the path of a task resolved from parents P1..Pn is its own Override
\* resolved against the left-to-right fold merge(accumulator, Pi.path) over
\* the parents that have a path; when some parent has one, the fold takes
\* the apply method of the last such parent and starts with that parent's
\* dirs (up to the collapse of adjacent equal entries); in the scenario of
\* section 8 the dirs are ["/usr/bin", "/bin"].
C8_PathFold ==
    InTryFrom =>
        \A id \in Children :
            LET ps == ParentPathsOf(id)
                inherited == MergeFold("path", ps)
            IN  /\ fold(ParentsOf(id), NoParent).path = inherited
                /\ resolved[id].path = OwnPath(doc[id].path, inherited)
                /\ ps # <<>> =>
                     /\ inherited[1].apply = Last(ps).apply
                     /\ IsPrefix(Collapsed(Last(ps).dirs), Collapsed(inherited[1].dirs))
                /\ Scenario8(id) =>
                     /\ resolved[id].path # None
                     /\ resolved[id].path[1].dirs = <<"/usr/bin", "/bin">>

\* the scenario of section 8 has been resolved
C8_Witness ==
    /\ InTryFrom /\ pc = "ok"
    /\ \E id \in Children :
          /\ Scenario8(id)
          /\ resolved[id].path[1].dirs = <<"/usr/bin", "/bin">>
          /\ resolved[id].path[1].apply = resolved[doc[id].extends.es[2]].path[1].apply
          /\ resolved[id].path[1].apply # resolved[doc[id].extends.es[1]].path[1].apply

(***************************************************************************)
(* C9                                                                      *)
(***************************************************************************)
\* the record resolve_task gives task id when its extends list is reversed
Reordered(id) ==
    resolve_task([doc[id] EXCEPT !.extends = Multi(<<doc[id].extends.es[2], doc[id].extends.es[1]>>)],
                 resolved)[1]

\* the dirs of an optional path; an absent path has none
DirsOf(p) == IF p = None THEN <<>> ELSE p[1].dirs

\* a task that sets dirs of its own
SetsDirs(id) ==
    /\ doc[id].path.tag = "Custom"
    /\ doc[id].path.custom[1].config.dirs # <<>>

\* children of two different parents that both went through resolution
TwoParents == {id \in Children : /\ Len(doc[id].extends.es) = 2
                                 /\ doc[id].extends.es[1] # doc[id].extends.es[2]}

\* C9 as stated: whenever both parents A and B of a child set dirs, the
\* child's dirs under extends=[A,B] differ from its dirs under extends=[B,A].
C9_AnyOrderDiffers ==
    InTryFrom =>
        \A id \in TwoParents :
            (SetsDirs(doc[id].extends.es[1]) /\ SetsDirs(doc[id].extends.es[2]) /\ doc[id].path = Unset)
               => DirsOf(resolved[id].path) # DirsOf(Reordered(id).path)

\* C9 (amended): when the resolved dirs of A and B are both non-empty and
\* have no directory in common, and the child neither switches its path off
\* (false) nor replaces it (Custom with replace=true), the child's dirs under
\* extends=[A,B] differ from its dirs under extends=[B,A].
C9_DisjointOrderDiffers ==
    InTryFrom =>
        \A id \in TwoParents :
            LET A == resolved[doc[id].extends.es[1]].path
                B == resolved[doc[id].extends.es[2]].path
            IN  ( /\ DirsOf(A) # <<>> /\ DirsOf(B) # <<>>
                  /\ Range(DirsOf(A)) \cap Range(DirsOf(B)) = {}
                  /\ ~(doc[id].path.tag = "Use" /\ ~doc[id].path.use)
                  /\ ~(doc[id].path.tag = "Custom" /\ doc[id].path.custom[1].replace) )
                => DirsOf(resolved[id].path) # DirsOf(Reordered(id).path)

\* a child with dirs of its own merged on top of two parents with disjoint
\* dirs; the two orders give two different sequences
C9_Witness ==
    /\ InTryFrom /\ pc = "ok"
    /\ \E id \in TwoParents :
          /\ doc[id].path.tag = "Custom" /\ ~doc[id].path.custom[1].replace
          /\ doc[id].path.custom[1].config.dirs = <<"/usr/bin">>
          /\ DirsOf(resolved[doc[id].extends.es[1]].path) = <<"/bin">>
          /\ DirsOf(resolved[doc[id].extends.es[2]].path) = <<"/usr/bin">>
          /\ DirsOf(resolved[id].path) = <<"/usr/bin", "/bin">>
          /\ DirsOf(Reordered(id).path) = <<"/usr/bin", "/bin", "/usr/bin">>

(***************************************************************************)
(* C10                                                                     *)
(***************************************************************************)
\* the parents of id, by position, whose resolved env defines key k
Definers(id, k) ==
    {i \in 1..Len(ParentsOf(id)) : ParentsOf(id)[i].env # None
                                   /\ k \in DOMAIN ParentsOf(id)[i].env[1].vars}
InheritedKeys(id) == {k \in Keys : Definers(id, k) # {}}
\* the value of the latest-listed parent that defines k
InheritedVal(id, k) ==
    ParentsOf(id)[CHOOSE i \in Definers(id, k) : \A j \in Definers(id, k) : j <= i].env[1].vars[k]

\* section 8, single inheritance + override: bar extends foo alone, foo
\* resolved to {FOO_ENV, BAR_ENV}, bar sets BAR_ENV = "overridden" (merge)
Scenario10(id) ==
    /\ Len(doc[id].extends.es) = 1
    /\ resolved[doc[id].extends.es[1]].env # None
    /\ DOMAIN resolved[doc[id].extends.es[1]].env[1].vars = {"FOO_ENV", "BAR_ENV"}
    /\ doc[id].env.tag = "Custom"
    /\ ~doc[id].env.custom[1].replace
    /\ doc[id].env.custom[1].config.vars = ("BAR_ENV" :> "overridden")

\* C10: a task that inherits its env (Unset or true) gets, for every key
\* some parent defines, the value of the latest-listed parent defining it,
\* and no other key; a task whose own env is Custom with replace=false gets
\* its own value for each of its own keys and the inherited value for every
\* other inherited key, and no other key; in the scenario of section 8 bar
\* resolves to {FOO_ENV: foo's value, BAR_ENV: "overridden"}.
C10_EnvCollisions ==
    InTryFrom =>
        \A id \in Children :
            LET own == doc[id].env
                res == resolved[id].env
                anyEnv == \E i \in 1..Len(ParentsOf(id)) : ParentsOf(id)[i].env # None
            IN  /\ (own.tag = "Unset" \/ (own.tag = "Use" /\ own.use)) =>
                     /\ res # None <=> anyEnv
                     /\ res # None =>
                          /\ DOMAIN res[1].vars = InheritedKeys(id)
                          /\ \A k \in InheritedKeys(id) : res[1].vars[k] = InheritedVal(id, k)
                /\ (own.tag = "Custom" /\ ~own.custom[1].replace) =>
                     LET mine == own.custom[1].config.vars IN
                     /\ res # None
                     /\ DOMAIN res[1].vars = DOMAIN mine \cup InheritedKeys(id)
                     /\ \A k \in DOMAIN mine : res[1].vars[k] = mine[k]
                     /\ \A k \in InheritedKeys(id) \ DOMAIN mine : res[1].vars[k] = InheritedVal(id, k)
                /\ Scenario10(id) =>
                     res = Some([vars |-> ("FOO_ENV" :> resolved[doc[id].extends.es[1]].env[1].vars["FOO_ENV"])
                                          @@ ("BAR_ENV" :> "overridden"),
                                 merge |-> own.custom[1].config.merge])

\* two parents define the same two keys with different values and the child
\* overrides one of them: the other comes from the later-listed parent
C10_Witness ==
    /\ InTryFrom /\ pc = "ok"
    /\ \E id \in TwoParents :
          /\ doc[id].env.tag = "Custom" /\ ~doc[id].env.custom[1].replace
          /\ DOMAIN doc[id].env.custom[1].config.vars = {"BAR_ENV"}
          /\ Definers(id, "FOO_ENV") = {1, 2}
          /\ Definers(id, "BAR_ENV") = {1, 2}
          /\ ParentsOf(id)[1].env[1].vars["FOO_ENV"] # ParentsOf(id)[2].env[1].vars["FOO_ENV"]
          /\ resolved[id].env[1].vars["FOO_ENV"] = ParentsOf(id)[2].env[1].vars["FOO_ENV"]
          /\ resolved[id].env[1].vars["BAR_ENV"] = "overridden"

(***************************************************************************)
(* C11                                                                     *)
(***************************************************************************)
\* the record of task id as the document alone determines it: the task's own
\* settings resolved against the fold of its parents' records, each
\* determined the same way (defined when every extends id exists and no
\* task depends on a cycle)
RECURSIVE ByDocument(_, _)
ByDocument(d, id) ==
    LET es == d[id].extends.es IN
    ResolvedTask(d[id], fold([i \in 1..Len(es) |-> ByDocument(d, es[i])], NoParent))

\* a document whose extends ids all exist and whose extends relation is acyclic
ValidDoc(d) == ~HasUnknown(d) /\ OnCycle(d) = {}

\* C11: for a valid document, whatever order the validation loop, the seed
\* pass and the iterative passes visit the task mapping in, every record in
\* the resolved set is the one the document alone determines, and so is the
\* map returned: two resolutions of the same document return the same map.
C11_OrderIndependent ==
    (InTryFrom /\ ValidDoc(doc)) =>
        /\ \A id \in DOMAIN resolved : resolved[id] = ByDocument(doc, id)
        /\ pc = "ok" => result = Some([id \in DOMAIN doc |-> ByDocument(doc, id)])

\* a run in which c was resolved in the very pass that resolved its parent
\* b (b was scanned first and inserted at once), with a path inherited
\* through b from a
C11_Witness ==
    /\ InTryFrom /\ pc = "ok" /\ start_len = 2
    /\ DOMAIN doc = Ids
    /\ doc["b"].extends = Single("a")
    /\ doc["c"].extends = Multi(<<"b">>)
    /\ doc["b"].path = Unset /\ doc["c"].path = Unset
    /\ resolved["a"].path # None
    /\ result[1]["c"].path = resolved["a"].path

(***************************************************************************)
(* C12                                                                     *)
(***************************************************************************)
\* the parents of id, by position, that have a resolved shell
ShellDefiners(id) == {i \in 1..Len(ParentsOf(id)) : ParentsOf(id)[i].shell # None}
\* the shell of the last-listed parent that has one; absent if none has
InheritedShell(id) ==
    IF ShellDefiners(id) = {} THEN None
    ELSE ParentsOf(id)[CHOOSE i \in ShellDefiners(id) : \A j \in ShellDefiners(id) : j <= i].shell

\* a task's own shell Override resolved against an inherited shell
OwnShell(ov, inherited) ==
    CASE ov.tag = "Unset" -> inherited
      [] ov.tag = "Use" /\ ov.use -> inherited
      [] ov.tag = "Use" /\ ~ov.use -> None
      [] ov.tag = "Custom" -> Some(ov.custom[1].es)

\* C12: the shell of a task resolved from parents P1..Pn is its own shell
\* Override resolved against the shell of the last-listed parent that has a
\* resolved shell (absent if no parent has one): Unset or true inherits it,
\* false yields no shell, a Custom shell replaces it.
C12_ShellFold ==
    InTryFrom =>
        \A id \in Children :
            /\ fold(ParentsOf(id), NoParent).shell = InheritedShell(id)
            /\ resolved[id].shell = OwnShell(doc[id].shell, InheritedShell(id))

\* two parents with different shells, and a child that inherits the one of
\* the later-listed parent
C12_Witness ==
    /\ InTryFrom /\ pc = "ok"
    /\ \E id \in TwoParents :
          /\ doc[id].shell = Use(TRUE)
          /\ ShellDefiners(id) = {1, 2}
          /\ ParentsOf(id)[1].shell # ParentsOf(id)[2].shell
          /\ resolved[id].shell = ParentsOf(id)[2].shell

(***************************************************************************)
(* C13                                                                     *)
(***************************************************************************)
\* tasks with a non-empty extends list
NonSeed(d) == {id \in DOMAIN d : Len(d[id].extends.es) > 0}

\* what holds at every point of a resolution: a resolved task has all its
\* parents resolved; the cycle error leaves pending only tasks on a cycle or
\* extending one; and for a valid document there is no error, a finished
\* pass has resolved at least one task, a pass that goes on starts with
\* fewer pending tasks than the one before, and there are at most as many
\* passes as non-seed tasks
C13_Progress ==
    InTryFrom =>
        /\ \A id \in DOMAIN resolved : Listed(doc, id) \subseteq DOMAIN resolved
        /\ err = Some(CycleDetected) =>
              /\ next # {}
              /\ next \subseteq Stuck(doc)
        /\ ValidDoc(doc) =>
              /\ pc # "failed" /\ err = None
              /\ (pc = "scan" /\ tasks = {}) => Cardinality(next) < start_len
              /\ pc = "loop" => Cardinality(tasks) < start_len
              /\ passes <= Cardinality(NonSeed(doc))

\* C13: for every document whose extends ids all exist and whose extends
\* relation is acyclic, try_from ends with Ok; on the way every pass
\* resolves at least one task, so that the pending set shrinks and the
\* passes number at most the non-seed tasks; a task is resolved only with
\* all its parents resolved; and the cycle error is returned only with
\* pending tasks that depend on a cycle.
C13_Terminates ==
    /\ []C13_Progress
    /\ (InTryFrom /\ ValidDoc(doc)) ~> (pc = "ok" /\ result # None)

\* a chain of three tasks resolved in as many passes as it has non-seed tasks
C13_Witness ==
    /\ InTryFrom /\ pc = "ok" /\ ValidDoc(doc)
    /\ Cardinality(NonSeed(doc)) = 2
    /\ passes = 2

====
